---- MODULE Spec2Model ----
(***************************************************************************)
(* Authorization policy model (policy_model.py) and the differential test  *)
(* oracle (test_framework.py, api_client.py) that drives the bundled       *)
(* file-sharing subject (server.py, file_sharing_api.py).                  *)
(***************************************************************************)
EXTENDS Integers, Sequences, FiniteSets, TLC

(***************************************************************************)
(* Bounds of the model.                                                    *)
(***************************************************************************)
\* Number of generate_all_scenarios calls whose returned lists are kept.
MaxCalls == 2

(***************************************************************************)
(* policy_model.py: the declared enumerations.                             *)
(***************************************************************************)
audiences == <<"owner", "collaborator", "org_member", "external">>

\* Mutant: the visibilities are iterated from the most open one.
visibilities_PublicFirst == <<"public", "org_public", "shared", "private">>

visibilities == <<"private", "shared", "org_public", "public">>

actions_MissingShare == <<"read", "edit", "delete">>

actions == <<"read", "edit", "delete", "share">>

Range(s) == {s[i] : i \in 1..Len(s)}

\* AuthorizationPolicy instances a caller may hold.
Policies == {"policy_a", "policy_b"}

\* A value outside each enumeration: evaluate takes plain strings and checks
\* none of them against the enumerations.
OutOfDomain == "unknown"

AudienceArgs == Range(audiences) \cup {OutOfDomain}

VisibilityArgs == Range(visibilities) \cup {OutOfDomain}

ActionArgs == Range(actions) \cup {OutOfDomain}

(***************************************************************************)
(* AuthorizationPolicy.evaluate: the rule chain, in the order of the code. *)
(***************************************************************************)
\* Mutant: the collaboration rule is tried before the public rule.
evaluate_CollabBeforePublic(audience, visibility, action, is_owner, has_collaboration_permission, same_org) ==
    IF is_owner \/ audience = "owner" THEN "ALLOW"
    ELSE IF has_collaboration_permission /\ visibility = "public"
      THEN (IF action \in {"read", "edit"} THEN "ALLOW" ELSE "DENY")
    ELSE IF visibility = "public"
      THEN (IF action = "read" THEN "ALLOW" ELSE "DENY")
    ELSE IF visibility = "org_public"
      THEN (IF same_org /\ action = "read" THEN "ALLOW" ELSE "DENY")
    ELSE IF has_collaboration_permission
      THEN (IF action \in {"read", "edit"} THEN "ALLOW" ELSE "DENY")
    ELSE "DENY"

\* Mutant: the owner rule is tried after the public rule.
evaluate_OwnerAfterPublic(audience, visibility, action, is_owner, has_collaboration_permission, same_org) ==
    IF visibility = "public"
      THEN (IF action = "read" THEN "ALLOW" ELSE "DENY")
    ELSE IF is_owner \/ audience = "owner" THEN "ALLOW"
    ELSE IF visibility = "org_public"
      THEN (IF same_org /\ action = "read" THEN "ALLOW" ELSE "DENY")
    ELSE IF has_collaboration_permission
      THEN (IF action \in {"read", "edit"} THEN "ALLOW" ELSE "DENY")
    ELSE "DENY"

\* Mutant: the collaboration rule is tried before the org_public rule.
evaluate_CollabBeforeOrg(audience, visibility, action, is_owner, has_collaboration_permission, same_org) ==
    IF is_owner \/ audience = "owner" THEN "ALLOW"
    ELSE IF visibility = "public"
      THEN (IF action = "read" THEN "ALLOW" ELSE "DENY")
    ELSE IF has_collaboration_permission
      THEN (IF action \in {"read", "edit"} THEN "ALLOW" ELSE "DENY")
    ELSE IF visibility = "org_public"
      THEN (IF same_org /\ action = "read" THEN "ALLOW" ELSE "DENY")
    ELSE "DENY"

\* Mutant: a collaborator may share (the subject's BUG #3, in the policy).
evaluate_CollabShares(audience, visibility, action, is_owner, has_collaboration_permission, same_org) ==
    IF is_owner \/ audience = "owner" THEN "ALLOW"
    ELSE IF visibility = "public"
      THEN (IF action = "read" THEN "ALLOW" ELSE "DENY")
    ELSE IF visibility = "org_public"
      THEN (IF same_org /\ action = "read" THEN "ALLOW" ELSE "DENY")
    ELSE IF has_collaboration_permission
      THEN (IF action \in {"read", "edit", "share"} THEN "ALLOW" ELSE "DENY")
    ELSE "DENY"

evaluate(audience, visibility, action, is_owner, has_collaboration_permission, same_org) ==
    \* RULE 1: owner has full access
    IF is_owner \/ audience = "owner" THEN "ALLOW"
    \* RULE 2: public files are read-only
    ELSE IF visibility = "public"
      THEN (IF action = "read" THEN "ALLOW" ELSE "DENY")
    \* RULE 3: org_public files are read-only for the organisation
    ELSE IF visibility = "org_public"
      THEN (IF same_org /\ action = "read" THEN "ALLOW" ELSE "DENY")
    \* RULE 4: explicit collaboration permission
    ELSE IF has_collaboration_permission
      THEN (IF action \in {"read", "edit"} THEN "ALLOW" ELSE "DENY")
    \* RULE 5, RULE 6: shared and private
    ELSE IF visibility = "shared" THEN "DENY"
    ELSE IF visibility = "private" THEN "DENY"
    \* RULE 7: default deny
    ELSE "DENY"

\* AuthorizationPolicy._define_rules: the ids of the rule descriptions.
define_rules == <<"1", "2", "3", "4", "5", "6", "7">>

(***************************************************************************)
(* AuthorizationPolicy.generate_all_scenarios.                             *)
(***************************************************************************)
\* Mutant: a collaborator is taken to be in the owner's organisation.
DerivedFlags_CollabSameOrg(audience) ==
    [is_owner          |-> audience = "owner",
     has_collaboration |-> audience = "collaborator",
     same_org          |-> audience \in {"owner", "org_member", "collaborator"}]

\* The context flags of an audience (lines 144-146).
DerivedFlags(audience) ==
    [is_owner          |-> audience = "owner",
     has_collaboration |-> audience = "collaborator",
     same_org          |-> audience \in {"owner", "org_member"}]

\* The dictionary appended for one (audience, visibility, action).
Scenario(scenario_id, audience, visibility, action) ==
    LET f == DerivedFlags(audience) IN
    [scenario_id       |-> scenario_id,
     audience          |-> audience,
     visibility        |-> visibility,
     action            |-> action,
     is_owner          |-> f.is_owner,
     has_collaboration |-> f.has_collaboration,
     same_org          |-> f.same_org,
     expected_result   |-> evaluate(audience, visibility, action, f.is_owner,
                                    f.has_collaboration, f.same_org)]

\* The three nested for loops: i, j, k index audiences, visibilities, actions;
\* loop carries the locals scenario_id and scenarios from one pass to the next.
\* The test loop.scenario_id < 1 is never true (the counter only grows); it makes
\* TLC evaluate the locals at every pass instead of nesting 64 unevaluated terms.
RECURSIVE GenLoop(_, _, _, _)
GenLoop(i, j, k, loop) ==
    IF i > Len(audiences) \/ loop.scenario_id < 1 THEN loop.scenarios
    ELSE IF j > Len(visibilities) THEN GenLoop(i + 1, 1, 1, loop)
    ELSE IF k > Len(actions) THEN GenLoop(i, j + 1, 1, loop)
    ELSE GenLoop(i, j, k + 1,
                 [scenario_id |-> loop.scenario_id + 1,
                  scenarios   |-> Append(loop.scenarios,
                                         Scenario(loop.scenario_id, audiences[i],
                                                  visibilities[j], actions[k]))])

(***************************************************************************)
(* file_sharing_api.py: FileShareAPI.  The state of one FileShareAPI is a  *)
(* record api with the fields users, files, permissions and organizations; *)
(* every operation returns the state it leaves and its APIResponse.        *)
(* A uuid4 string is modelled by the number of the draw that produced it.  *)
(***************************************************************************)
\* An empty dict.
EmptyDict == [k \in {} |-> k]

\* d[key] = value on a dict.
DictSet(d, key, value) == [k \in DOMAIN d \cup {key} |-> IF k = key THEN value ELSE d[k]]

\* d.get(key, default).
DictGet(d, key, default) == IF key \in DOMAIN d THEN d[key] ELSE default

\* del d[k] for every key in keys.
DictDel(d, keys) == [k \in DOMAIN d \ keys |-> d[k]]

\* FileShareAPI.__init__.
NewFileShareAPI ==
    [users |-> EmptyDict, files |-> EmptyDict,
     permissions |-> EmptyDict, organizations |-> EmptyDict]

\* APIResponse(status_code, message, data): data or {}.
APIResponse(status_code, data) == [status_code |-> status_code, data |-> data]

\* FileShareAPI.create_user; user_id is the uuid drawn for it.
api_create_user(api, user_id, email, organization_id, name) ==
    LET user == [email |-> email, organization_id |-> organization_id, name |-> name]
        members == DictGet(api.organizations, organization_id, <<>>)
    IN  [api  |-> [api EXCEPT !.users = DictSet(@, user_id, user),
                              !.organizations =
                                  DictSet(@, organization_id, Append(members, user_id))],
         resp |-> APIResponse(201, [user_id |-> user_id, email |-> email])]

\* FileShareAPI.create_file; file_id is the uuid drawn for it.
api_create_file(api, file_id, owner_id, name, visibility, content) ==
    IF owner_id \notin DOMAIN api.users
      THEN [api |-> api, resp |-> APIResponse(404, EmptyDict)]
    ELSE IF visibility \notin {"private", "shared", "org_public", "public"}
      THEN [api |-> api, resp |-> APIResponse(400, EmptyDict)]
    ELSE LET file == [owner_id |-> owner_id, name |-> name,
                      visibility |-> visibility, content |-> content]
         IN  [api  |-> [api EXCEPT !.files = DictSet(@, file_id, file)],
              resp |-> APIResponse(201, [file_id |-> file_id, name |-> name,
                                         visibility |-> visibility])]

\* FileShareAPI._check_authorization, with the subject's three intentional bugs.
check_authorization(api, file_id, user_id, action) ==
    IF file_id \notin DOMAIN api.files \/ user_id \notin DOMAIN api.users THEN FALSE
    ELSE LET file == api.files[file_id]
             user == api.users[user_id]
         IN
         \* Rule 1: owner has full access
         IF file.owner_id = user_id THEN TRUE
         \* Rule 2: public files (BUG #1: edit is allowed)
         ELSE IF file.visibility = "public"
           THEN (IF action = "read" THEN TRUE
                 ELSE IF action = "edit" THEN TRUE
                 ELSE FALSE)
         \* Rule 3: organization-public files (BUG #2: delete is allowed)
         ELSE IF file.visibility = "org_public"
           THEN LET owner == api.users[file.owner_id]
                    same_org == (user.organization_id = owner.organization_id)
                IN  IF same_org /\ action = "read" THEN TRUE
                    ELSE IF same_org /\ action = "delete" THEN TRUE
                    ELSE FALSE
         \* Rule 4: explicit permissions (BUG #3: share is allowed)
         ELSE IF <<file_id, user_id>> \in DOMAIN api.permissions
           THEN LET perm == api.permissions[<<file_id, user_id>>] IN
                IF action = "read" THEN TRUE
                ELSE IF action = "edit" THEN (perm = "edit" \/ perm = "read")
                ELSE IF action = "share" THEN TRUE
                ELSE FALSE
         \* Rule 5: shared and private files deny by default
         ELSE FALSE

\* FileShareAPI.get_file.
api_get_file(api, file_id, user_id) ==
    IF file_id \notin DOMAIN api.files
      THEN [api |-> api, resp |-> APIResponse(404, EmptyDict)]
    ELSE IF ~check_authorization(api, file_id, user_id, "read")
      THEN [api |-> api, resp |-> APIResponse(403, EmptyDict)]
    ELSE LET file == api.files[file_id] IN
         [api  |-> api,
          resp |-> APIResponse(200, [file_id |-> file_id, name |-> file.name,
                                     owner_id |-> file.owner_id,
                                     visibility |-> file.visibility,
                                     content |-> file.content])]

\* FileShareAPI.update_file.
api_update_file(api, file_id, user_id, content) ==
    IF file_id \notin DOMAIN api.files
      THEN [api |-> api, resp |-> APIResponse(404, EmptyDict)]
    ELSE IF ~check_authorization(api, file_id, user_id, "edit")
      THEN [api |-> api, resp |-> APIResponse(403, EmptyDict)]
    ELSE [api  |-> [api EXCEPT !.files[file_id].content = content],
          resp |-> APIResponse(200, [file_id |-> file_id])]

\* Mutant: delete_file leaves the permissions on the file in place.
api_delete_file_KeepsPermissions(api, file_id, user_id) ==
    IF file_id \notin DOMAIN api.files
      THEN [api |-> api, resp |-> APIResponse(404, EmptyDict)]
    ELSE IF ~check_authorization(api, file_id, user_id, "delete")
      THEN [api |-> api, resp |-> APIResponse(403, EmptyDict)]
    ELSE [api  |-> [api EXCEPT !.files = DictDel(@, {file_id})],
          resp |-> APIResponse(200, [file_id |-> file_id])]

\* FileShareAPI.delete_file.
api_delete_file(api, file_id, user_id) ==
    IF file_id \notin DOMAIN api.files
      THEN [api |-> api, resp |-> APIResponse(404, EmptyDict)]
    ELSE IF ~check_authorization(api, file_id, user_id, "delete")
      THEN [api |-> api, resp |-> APIResponse(403, EmptyDict)]
    ELSE LET keys_to_delete == {k \in DOMAIN api.permissions : k[1] = file_id} IN
         [api  |-> [api EXCEPT !.files = DictDel(@, {file_id}),
                               !.permissions = DictDel(@, keys_to_delete)],
          resp |-> APIResponse(200, [file_id |-> file_id])]

\* FileShareAPI.share_file.
api_share_file(api, file_id, user_id, target_user_id, permission_type) ==
    IF file_id \notin DOMAIN api.files
      THEN [api |-> api, resp |-> APIResponse(404, EmptyDict)]
    ELSE IF target_user_id \notin DOMAIN api.users
      THEN [api |-> api, resp |-> APIResponse(404, EmptyDict)]
    ELSE IF ~check_authorization(api, file_id, user_id, "share")
      THEN [api |-> api, resp |-> APIResponse(403, EmptyDict)]
    ELSE [api  |-> [api EXCEPT !.permissions =
                                   DictSet(@, <<file_id, target_user_id>>, permission_type)],
          resp |-> APIResponse(200, [file_id |-> file_id, shared_with |-> target_user_id,
                                     permission |-> permission_type])]

\* Mutant: reset leaves the users in place.
api_reset_KeepsUsers(api) == [NewFileShareAPI EXCEPT !.users = api.users]

\* FileShareAPI.reset.
api_reset(api) == NewFileShareAPI

(***************************************************************************)
(* server.py: the Flask routes in front of the FileShareAPI.  An HTTP      *)
(* response is [status_code, is_json, body]; body is the JSON object.      *)
(***************************************************************************)
HttpJson(status_code, body) == [status_code |-> status_code, is_json |-> TRUE, body |-> body]

\* A response whose body is not JSON (an error page, a truncated body).
HttpText(status_code) == [status_code |-> status_code, is_json |-> FALSE, body |-> EmptyDict]

\* _bad_request(msg).
bad_request == HttpJson(400, [status_code |-> 400])

\* APIResponse.to_dict, and jsonify(resp.to_dict()), resp.status_code.
to_dict(resp) == [status_code |-> resp.status_code, data |-> resp.data]

Routed(r) == [api |-> r.api, http |-> HttpJson(r.resp.status_code, to_dict(r.resp))]

\* POST /users.
route_create_user(api, uuid, a) ==
    IF a.email = "" \/ a.organization_id = "" \/ a.name = ""
      THEN [api |-> api, http |-> bad_request]
    ELSE Routed(api_create_user(api, uuid, a.email, a.organization_id, a.name))

\* POST /files.
route_create_file(api, uuid, a) ==
    IF a.owner_id = 0 \/ a.name = "" \/ a.visibility = ""
      THEN [api |-> api, http |-> bad_request]
    ELSE Routed(api_create_file(api, uuid, a.owner_id, a.name, a.visibility, a.content))

\* GET /files/<file_id>.
route_get_file(api, a) ==
    IF a.user_id = 0 THEN [api |-> api, http |-> bad_request]
    ELSE Routed(api_get_file(api, a.file_id, a.user_id))

\* PUT /files/<file_id>.
route_update_file(api, a) ==
    IF a.user_id = 0 THEN [api |-> api, http |-> bad_request]
    ELSE Routed(api_update_file(api, a.file_id, a.user_id, a.content))

\* DELETE /files/<file_id>.
route_delete_file(api, a) ==
    IF a.user_id = 0 THEN [api |-> api, http |-> bad_request]
    ELSE Routed(api_delete_file(api, a.file_id, a.user_id))

\* POST /files/<file_id>/share.
route_share_file(api, a) ==
    IF a.user_id = 0 \/ a.target_user_id = 0 THEN [api |-> api, http |-> bad_request]
    ELSE Routed(api_share_file(api, a.file_id, a.user_id, a.target_user_id,
                               a.permission_type))

\* POST /authorize: the non-destructive authorization check.
route_authorize_check(api, a) ==
    IF a.file_id = 0 \/ a.user_id = 0 \/ a.action = ""
      THEN [api |-> api, http |-> bad_request]
    ELSE [api  |-> api,
          http |-> HttpJson(200, [allowed |->
                                  check_authorization(api, a.file_id, a.user_id, a.action)])]

\* POST /reset.
route_reset(api) == [api |-> api_reset(api), http |-> HttpJson(200, [status_code |-> 200])]

\* The server handling one request; uuid is the next uuid4 it would draw.
Handle(api, uuid, req) ==
    CASE req.route = "create_user" -> route_create_user(api, uuid, req.args)
      [] req.route = "create_file" -> route_create_file(api, uuid, req.args)
      [] req.route = "get_file"    -> route_get_file(api, req.args)
      [] req.route = "update_file" -> route_update_file(api, req.args)
      [] req.route = "delete_file" -> route_delete_file(api, req.args)
      [] req.route = "share_file"  -> route_share_file(api, req.args)
      [] req.route = "authorize"   -> route_authorize_check(api, req.args)
      [] req.route = "reset"       -> route_reset(api)

(***************************************************************************)
(* api_client.py: ApiClient.  Every method sends one request through the   *)
(* session (timeout 5 s, Retry(total=3, status_forcelist=(500, 502, 504))) *)
(* and wraps the response.                                                 *)
(***************************************************************************)
Request(method, route, args) == [method |-> method, route |-> route, args |-> args]

reset_request == Request("POST", "reset", EmptyDict)

create_user_request(email, organization_id, name) ==
    Request("POST", "create_user",
            [email |-> email, organization_id |-> organization_id, name |-> name])

create_file_request(owner_id, name, visibility, content) ==
    Request("POST", "create_file",
            [owner_id |-> owner_id, name |-> name, visibility |-> visibility,
             content |-> content])

get_file_request(file_id, user_id) ==
    Request("GET", "get_file", [file_id |-> file_id, user_id |-> user_id])

update_file_request(file_id, user_id, content) ==
    Request("PUT", "update_file",
            [file_id |-> file_id, user_id |-> user_id, content |-> content])

delete_file_request(file_id, user_id) ==
    Request("DELETE", "delete_file", [file_id |-> file_id, user_id |-> user_id])

share_file_request(file_id, user_id, target_user_id, permission_type) ==
    Request("POST", "share_file",
            [file_id |-> file_id, user_id |-> user_id,
             target_user_id |-> target_user_id, permission_type |-> permission_type])

check_authorization_request(file_id, user_id, action) ==
    Request("POST", "authorize", [file_id |-> file_id, user_id |-> user_id, action |-> action])

\* What can happen to one request on its way to the server and back.
\*   none:        the server handles it and its response arrives
\*   bad_body:    the server handles it, the body that arrives is not JSON
\*   status_400,
\*   status_404,
\*   status_503,
\*   status_500:  an error page with that status is answered, the route does
\*                not run
\*   timeout:     the server handles it, no response arrives within the timeout
\*   unreachable: no connection to the server
\* A fault lasts for the whole call, the re-sent requests included.
StatusFaults ==
    [status_400 |-> 400, status_404 |-> 404, status_503 |-> 503, status_500 |-> 500]

Faults == {"none", "bad_body", "timeout", "unreachable"} \cup DOMAIN StatusFaults

\* Retry(total=3, ...): how often the session sends a failed request again.
RetryTotal == 3

\* status_forcelist=(500, 502, 504): the statuses the session retries on.
status_forcelist == {500, 502, 504}

\* The methods the session's Retry re-sends after a response timed out or came
\* with a status of status_forcelist (urllib3's default allowed methods; POST
\* is not among them).
RetriedMethods == {"GET", "PUT", "DELETE"}

\* The call is sent again until the retries are used up.
Retried(req, fault) ==
    /\ req.method \in RetriedMethods
    /\ \/ fault = "timeout"
       \/ (fault \in DOMAIN StatusFaults /\ StatusFaults[fault] \in status_forcelist)

\* How many requests of one call arrive at the server.
Arrivals(req, fault) ==
    IF fault = "unreachable" THEN 0
    ELSE IF Retried(req, fault) THEN 1 + RetryTotal
    ELSE 1

\* The server handling the same request n times in a row (n >= 1).
RECURSIVE HandleTimes(_, _, _, _)
HandleTimes(api, uuid, req, n) ==
    LET h == Handle(api, uuid, req) IN
    IF n <= 1 THEN h ELSE HandleTimes(h.api, uuid, req, n - 1)

\* session.request(...): the state the server is left in, whether the call
\* raised (Timeout, ConnectionError, RetryError), the response it returned and
\* how many requests arrived at the server.
Send(api, uuid, req, fault) ==
    LET n == Arrivals(req, fault)
        h == HandleTimes(api, uuid, req, n)
    IN
    CASE fault = "none" ->
            [api |-> h.api, raised |-> FALSE, http |-> h.http, arrivals |-> n]
      [] fault = "bad_body" ->
            [api |-> h.api, raised |-> FALSE, http |-> HttpText(h.http.status_code),
             arrivals |-> n]
      [] fault \in DOMAIN StatusFaults ->
            [api |-> api, raised |-> Retried(req, fault),
             http |-> HttpText(StatusFaults[fault]), arrivals |-> n]
      [] fault = "timeout" ->
            [api |-> h.api, raised |-> TRUE, http |-> HttpText(0), arrivals |-> n]
      [] fault = "unreachable" ->
            [api |-> api, raised |-> TRUE, http |-> HttpText(0), arrivals |-> n]

\* ApiClient._wrap_response.
wrap_response(http) ==
    LET body == IF http.is_json THEN http.body ELSE [message |-> "text"] IN
    [status_code |-> http.status_code, data |-> DictGet(body, "data", EmptyDict)]

\* ApiClient.check_authorization, after the request: the body's 'allowed',
\* False when it is absent or the body is not JSON.
allowed_of(http) ==
    IF http.is_json THEN DictGet(http.body, "allowed", FALSE) ELSE FALSE

(***************************************************************************)
(* test_framework.py: AuthorizationTestFramework, run as its __main__      *)
(* does: construct, setup_test_fixtures, run_all_tests.  The framework     *)
(* talks to the server process through its ApiClient; the environment      *)
(* chooses what happens to each request (at most MaxFaults of them fail).  *)
(***************************************************************************)
\* The email, organisation and name of the four users (lines 63-71), in
\* the order of creation.
fixture_users ==
    << [role |-> "owner",        email |-> "owner@acme.com",     organization_id |-> "org-acme",     name |-> "Test Owner"],
       [role |-> "collaborator", email |-> "collab@acme.com",    organization_id |-> "org-acme",     name |-> "Test Collaborator"],
       [role |-> "org_member",   email |-> "orgmember@acme.com", organization_id |-> "org-acme",     name |-> "Test OrgMember"],
       [role |-> "external",     email |-> "external@other.com", organization_id |-> "org-external", name |-> "Test External"] >>

\* The name, visibility and content of the four files (lines 88-95), in the
\* order of creation.
fixture_files ==
    << [name |-> "test-private.txt", visibility |-> "private",    content |-> "Private content"],
       [name |-> "test-shared.txt",  visibility |-> "shared",     content |-> "Shared content"],
       [name |-> "test-org.txt",     visibility |-> "org_public", content |-> "Org content"],
       [name |-> "test-public.txt",  visibility |-> "public",     content |-> "Public content"] >>

\* The files the collaborator is granted 'edit' on (lines 113, 116), in order.
fixture_grants == <<"shared", "private">>

\* The requests of setup_test_fixtures, in order: reset, four create_user,
\* four create_file, two share_file.
FirstUserStep == 2

FirstFileStep == FirstUserStep + Len(fixture_users)

FirstGrantStep == FirstFileStep + Len(fixture_files)

LastSetupStep == FirstGrantStep + Len(fixture_grants) - 1

\* The n-th request of setup_test_fixtures, given the maps bound so far.
setup_request(n, users, files) ==
    IF n < FirstUserStep THEN reset_request
    ELSE IF n < FirstFileStep
      THEN LET u == fixture_users[n - FirstUserStep + 1] IN
           create_user_request(u.email, u.organization_id, u.name)
    ELSE IF n < FirstGrantStep
      THEN LET f == fixture_files[n - FirstFileStep + 1] IN
           create_file_request(users["owner"], f.name, f.visibility, f.content)
    ELSE share_file_request(files[fixture_grants[n - FirstGrantStep + 1]],
                            users["owner"], users["collaborator"], "edit")

\* {role: resp.data['user_id']} over the four responses; KeyError when a
\* response carries no such key.
bind(keys, datas, field) ==
    IF \E i \in 1..Len(datas) : field \notin DOMAIN datas[i]
      THEN [raised |-> TRUE, map |-> EmptyDict]
    ELSE [raised |-> FALSE, map |-> [k \in Range(keys) |->
              datas[CHOOSE i \in 1..Len(keys) : keys[i] = k][field]]]

\* Mutant: the delete action calls the subject's delete operation.
action_request_DeletesFile(users, file_id, user_id, action) ==
    IF action = "read" THEN get_file_request(file_id, user_id)
    ELSE IF action = "edit" THEN update_file_request(file_id, user_id, "Updated content")
    ELSE IF action = "delete" THEN delete_file_request(file_id, user_id)
    ELSE share_file_request(file_id, user_id, users["external"], "read")

\* Mutant: the share action grants to the collaborator.
action_request_SharesWithCollaborator(users, file_id, user_id, action) ==
    IF action = "read" THEN get_file_request(file_id, user_id)
    ELSE IF action = "edit" THEN update_file_request(file_id, user_id, "Updated content")
    ELSE IF action = "delete" THEN check_authorization_request(file_id, user_id, "delete")
    ELSE share_file_request(file_id, user_id, users["collaborator"], "read")

\* The request execute_api_action sends for the action (lines 138-149).
action_request(users, file_id, user_id, action) ==
    IF action = "read" THEN get_file_request(file_id, user_id)
    ELSE IF action = "edit" THEN update_file_request(file_id, user_id, "Updated content")
    ELSE IF action = "delete" THEN check_authorization_request(file_id, user_id, "delete")
    ELSE share_file_request(file_id, user_id, users["external"], "read")

\* Mutant: every status but a success is taken as a denial.
status_decision_OtherIsDeny(response) ==
    IF response.status_code = 200 \/ response.status_code = 201 THEN "ALLOW"
    ELSE "DENY"

\* The decision execute_api_action reads off a wrapped response (lines 151-158).
status_decision(response) ==
    IF response.status_code = 200 \/ response.status_code = 201 THEN "ALLOW"
    ELSE IF response.status_code = 403 THEN "DENY"
    ELSE "ERROR"

\* No request: the value of the fields of a call that sent none.
NoRequest == Request("NONE", "none", EmptyDict)

\* AuthorizationTestFramework.execute_api_action: the state the server is left
\* in, whether the call raised, the request it sent and the HTTP response it got
\* (sent is FALSE when it sent no request), how many requests arrived at the
\* server, and the decision it returned.
execute_api_action(api, uuid, users, file_id, user_id, action, fault) ==
    IF action \in {"read", "edit", "delete", "share"}
      THEN LET req == action_request(users, file_id, user_id, action)
               t == Send(api, uuid, req, fault)
           IN  [api |-> t.api, raised |-> t.raised, sent |-> TRUE, request |-> req,
                http |-> t.http, arrivals |-> t.arrivals,
                returned |-> IF action = "delete"
                               THEN (IF allowed_of(t.http) THEN "ALLOW" ELSE "DENY")
                             ELSE status_decision(wrap_response(t.http))]
    ELSE [api |-> api, raised |-> FALSE, sent |-> FALSE, request |-> NoRequest,
          http |-> HttpText(0), arrivals |-> 0, returned |-> "ERROR"]

\* Mutant: a result without a decision counts as passed.
TestResult_ErrorPasses(scenario, actual) ==
    [scenario_id |-> scenario.scenario_id,
     scenario    |-> scenario,
     expected    |-> scenario.expected_result,
     actual      |-> actual,
     passed      |-> (scenario.expected_result = actual \/ actual = "ERROR")]

\* test_scenario's TestResult(scenario_id, scenario, expected, actual, passed),
\* with passed = (expected == actual).
TestResult(scenario, actual) ==
    [scenario_id |-> scenario.scenario_id,
     scenario    |-> scenario,
     expected    |-> scenario.expected_result,
     actual      |-> actual,
     passed      |-> (scenario.expected_result = actual)]

\* The tests of the two categories of analyze_results (lines 247, 249).
is_over_permissive(result) ==
    ~result.passed /\ result.expected = "DENY" /\ result.actual = "ALLOW"

is_over_restrictive(result) ==
    /\ ~result.passed
    /\ ~(result.expected = "DENY" /\ result.actual = "ALLOW")
    /\ result.expected = "ALLOW" /\ result.actual = "DENY"

\* Mutant: the passed results are grouped as well.
RECURSIVE failures_by_AllResults(_, _)
failures_by_AllResults(field, results) ==
    IF results = <<>> THEN EmptyDict
    ELSE LET n == Len(results)
             result == results[n]
             groups == failures_by_AllResults(field, SubSeq(results, 1, n - 1))
             key == result.scenario[field]
         IN  DictSet(groups, key, Append(DictGet(groups, key, <<>>), result))

\* {key: [the failed results with that key, in order]} over the keys that
\* have a failed result (lines 253-268).
RECURSIVE failures_by(_, _)
failures_by(field, results) ==
    IF results = <<>> THEN EmptyDict
    ELSE LET n == Len(results)
             result == results[n]
             groups == failures_by(field, SubSeq(results, 1, n - 1))
             key == result.scenario[field]
         IN  IF result.passed THEN groups
             ELSE DictSet(groups, key, Append(DictGet(groups, key, <<>>), result))

\* Mutant: the two categories are swapped.
analyze_results_Swapped(results) ==
    LET passed_at == {i \in 1..Len(results) : results[i].passed}
    IN  [total  |-> Len(results),
         passed |-> Cardinality(passed_at),
         failed |-> Len(results) - Cardinality(passed_at),
         pass_rate |-> IF Len(results) > 0
                         THEN <<Cardinality(passed_at) * 100, Len(results)>> ELSE <<0, 1>>,
         over_permissive  |-> SelectSeq(results, is_over_restrictive),
         over_restrictive |-> SelectSeq(results, is_over_permissive),
         failures_by_audience |-> failures_by("audience", results),
         failures_by_action   |-> failures_by("action", results)]

\* Mutant: the results without a decision are left out of total.
analyze_results_CountsDecided(results) ==
    LET passed_at == {i \in 1..Len(results) : results[i].passed}
        decided_at == {i \in 1..Len(results) : results[i].actual # "ERROR"}
    IN  [total  |-> Cardinality(decided_at),
         passed |-> Cardinality(passed_at),
         failed |-> Cardinality(decided_at) - Cardinality(passed_at),
         pass_rate |-> IF Cardinality(decided_at) > 0
                         THEN <<Cardinality(passed_at) * 100, Cardinality(decided_at)>>
                       ELSE <<0, 1>>,
         over_permissive  |-> SelectSeq(results, is_over_permissive),
         over_restrictive |-> SelectSeq(results, is_over_restrictive),
         failures_by_audience |-> failures_by("audience", results),
         failures_by_action   |-> failures_by("action", results)]

\* AuthorizationTestFramework.analyze_results; pass_rate is the fraction
\* <<numerator, denominator>> of passed / total * 100.
analyze_results(results) ==
    LET passed_at == {i \in 1..Len(results) : results[i].passed}
    IN  [total  |-> Len(results),
         passed |-> Cardinality(passed_at),
         failed |-> Len(results) - Cardinality(passed_at),
         pass_rate |-> IF Len(results) > 0
                         THEN <<Cardinality(passed_at) * 100, Len(results)>> ELSE <<0, 1>>,
         over_permissive  |-> SelectSeq(results, is_over_permissive),
         over_restrictive |-> SelectSeq(results, is_over_restrictive),
         failures_by_audience |-> failures_by("audience", results),
         failures_by_action   |-> failures_by("action", results)]

\* How many requests of one run of the framework the environment may fail.
MaxFaults == 1

\* How many times run_all_tests is called on one framework.
MaxRuns == 2

VARIABLES
    \* policy_model.py, as used by any caller
    rules,        \* rules[p]: AuthorizationPolicy.rules of instance p
    call,         \* the arguments a caller passes to evaluate
    decision,     \* what evaluate returned for them, "NONE" before the call
    returned,     \* the lists returned by generate_all_scenarios, in call order
    \* the server process (server.py, file_sharing_api.py)
    api,          \* the FileShareAPI: users, files, permissions, organizations
    uuid_count,   \* how many uuid4 values the server has drawn for the framework
    \* the framework process (test_framework.py)
    pc,           \* "constructed", "setup", "ready", "running", "tested", "analyzed",
                  \* "exported", "aborted"
    step,         \* the request of setup_test_fixtures, or the scenario, that is next
    resp_data,    \* setup_test_fixtures: the data of the create responses held in locals
    users,        \* AuthorizationTestFramework.users: role -> user_id
    files,        \* AuthorizationTestFramework.files: visibility -> file_id
    scenarios,    \* run_all_tests: the generated scenarios
    test_results, \* AuthorizationTestFramework.test_results
    exchange,     \* the latest execute_api_action: its action, response and result
    analysis,     \* print_summary: what analyze_results returned, {} before
    setup_log,    \* the status codes setup_test_fixtures was answered, in order
    export_summary, \* export_results: what analyze_results returned, {} before
    runs,         \* how many times run_all_tests was called
    fixture_api,  \* the state of the server when setup_test_fixtures returned
    api_reply,    \* a direct caller of the FileShareAPI: its latest call and status
    faults_used   \* how many requests the environment has failed

policy_vars == <<rules, call, decision, returned>>

oracle_vars ==
    <<api, uuid_count, pc, step, resp_data, users, files, scenarios, test_results,
      exchange, analysis, setup_log, export_summary, runs, fixture_api, api_reply,
      faults_used>>

vars == <<policy_vars, oracle_vars>>

\* Mutant: the scenario counter lives on across calls instead of starting at 1.
FirstScenarioId_Carried == 1 + Len(returned) * Len(audiences) * Len(visibilities) * Len(actions)

\* scenario_id = 1 (line 139).
FirstScenarioId == 1

\* The list one call of generate_all_scenarios returns.
generate_all_scenarios ==
    GenLoop(1, 1, 1, [scenario_id |-> FirstScenarioId, scenarios |-> <<>>])

(***************************************************************************)
(* The policy model as a state machine: callers construct policies, then   *)
(* call evaluate and generate_all_scenarios in any order.                  *)
(***************************************************************************)
\* Every combination of arguments a caller can pass to evaluate.
CallArgs ==
    [audience : AudienceArgs, visibility : VisibilityArgs, action : ActionArgs,
     is_owner : BOOLEAN, has_collaboration_permission : BOOLEAN, same_org : BOOLEAN]

PolicyInit ==
    /\ rules = [p \in Policies |-> define_rules]
    /\ call \in CallArgs
    /\ decision = "NONE"
    /\ returned = <<>>

\* No execute_api_action yet.
NoExchange ==
    [action |-> "none", user_id |-> 0, fault |-> "none", raised |-> FALSE,
     sent |-> FALSE, request |-> NoRequest, http |-> HttpText(0), arrivals |-> 0,
     returned |-> "NONE"]

\* No direct call of the FileShareAPI yet.
NoReply == [op |-> "none", status_code |-> 0]

\* AuthorizationTestFramework() in the framework process.
FrameworkConstructed ==
    /\ pc = "constructed"
    /\ step = 1
    /\ resp_data = <<>>
    /\ users = EmptyDict
    /\ files = EmptyDict
    /\ scenarios = <<>>
    /\ test_results = <<>>
    /\ exchange = NoExchange
    /\ analysis = EmptyDict
    /\ setup_log = <<>>
    /\ export_summary = EmptyDict
    /\ runs = 0
    /\ fixture_api = NewFileShareAPI
    /\ api_reply = NoReply
    /\ faults_used = 0

\* FileShareAPI() in the server, AuthorizationTestFramework() in the framework.
OracleInit ==
    /\ api = NewFileShareAPI
    /\ uuid_count = 0
    /\ FrameworkConstructed

\* One call policy.evaluate(...) with the arguments of call.
CallEvaluate ==
    \E self \in Policies :
        /\ decision' = evaluate(call.audience, call.visibility, call.action, call.is_owner,
                                call.has_collaboration_permission, call.same_org)
        /\ UNCHANGED <<rules, call, returned, oracle_vars>>

\* One call policy.generate_all_scenarios().
CallGenerateAllScenarios ==
    \E self \in Policies :
        /\ Len(returned) < MaxCalls
        /\ returned' = Append(returned, [self |-> self, scenarios |-> generate_all_scenarios])
        /\ UNCHANGED <<rules, call, decision, oracle_vars>>

PolicyNext == CallEvaluate \/ CallGenerateAllScenarios

\* Policies constructed and nothing called; the framework is not run.
Init == PolicyInit /\ OracleInit

Spec == Init /\ [][PolicyNext]_vars

(***************************************************************************)
(* The framework run as a state machine.                                   *)
(***************************************************************************)
\* The framework's own policy, before any call by another caller; call holds
\* the first sample case of policy_model's __main__.
PolicyIdle ==
    /\ rules = [p \in Policies |-> define_rules]
    /\ call = [audience |-> "owner", visibility |-> "private", action |-> "delete",
               is_owner |-> TRUE, has_collaboration_permission |-> FALSE,
               same_org |-> TRUE]
    /\ decision = "NONE"
    /\ returned = <<>>

\* The environment may fail this request.
MayFail(fault) == fault = "none" \/ faults_used < MaxFaults

\* The server drew uuid for a user or a file while handling the request.
Drew(api_after, uuid) == uuid \in DOMAIN api_after.users \cup DOMAIN api_after.files

KeysOf(fixtures, field) == [i \in 1..Len(fixtures) |-> fixtures[i][field]]

\* setup_test_fixtures: its next request, and the code up to the request after.
\* The responses of reset and of share_file are not looked at; those of the
\* create calls are read once all four are in (lines 73-78, 97-102).
setup_test_fixtures ==
    /\ pc \in {"constructed", "setup"}
    /\ \E fault \in Faults :
        /\ MayFail(fault)
        /\ LET t == Send(api, uuid_count + 1, setup_request(step, users, files), fault)
               held == Append(resp_data, wrap_response(t.http).data)
               bound_users == bind(KeysOf(fixture_users, "role"), held, "user_id")
               bound_files == bind(KeysOf(fixture_files, "visibility"), held, "file_id")
               key_error == \/ (step = FirstFileStep - 1 /\ bound_users.raised)
                            \/ (step = FirstGrantStep - 1 /\ bound_files.raised)
           IN  /\ api' = t.api
               /\ uuid_count' = IF Drew(t.api, uuid_count + 1)
                                  THEN uuid_count + 1 ELSE uuid_count
               /\ faults_used' = IF fault = "none" THEN faults_used ELSE faults_used + 1
               /\ setup_log' = IF t.raised THEN setup_log
                                ELSE Append(setup_log, t.http.status_code)
               /\ fixture_api' = IF step = LastSetupStep /\ ~t.raised /\ ~key_error
                                   THEN t.api ELSE fixture_api
               /\ IF t.raised \/ key_error
                    THEN /\ pc' = "aborted"
                         /\ UNCHANGED <<step, resp_data, users, files>>
                    ELSE /\ pc' = IF step = LastSetupStep THEN "ready" ELSE "setup"
                         /\ step' = IF step = LastSetupStep THEN 1 ELSE step + 1
                         /\ resp_data' = IF \/ (step >= FirstUserStep /\ step < FirstFileStep - 1)
                                              \/ (step >= FirstFileStep /\ step < FirstGrantStep - 1)
                                           THEN held ELSE <<>>
                         /\ users' = IF step = FirstFileStep - 1
                                       THEN bound_users.map ELSE users
                         /\ files' = IF step = FirstGrantStep - 1
                                       THEN bound_files.map ELSE files
    /\ UNCHANGED <<scenarios, test_results, exchange, analysis, export_summary, runs,
                   api_reply, policy_vars>>

\* Mutant: the results of the call before are kept.
run_all_tests_Appends ==
    /\ pc \in {"ready", "tested"}
    /\ runs < MaxRuns
    /\ runs' = runs + 1
    /\ scenarios' = generate_all_scenarios
    /\ step' = 1
    /\ pc' = IF Len(generate_all_scenarios) = 0 THEN "tested" ELSE "running"
    /\ UNCHANGED <<api, uuid_count, resp_data, users, files, test_results, exchange,
                   analysis, setup_log, export_summary, faults_used, fixture_api, api_reply, policy_vars>>

\* run_all_tests, up to its loop: generate the scenarios, empty test_results.
\* __main__ calls it once, after the setup; a caller may call it again.
run_all_tests ==
    /\ pc \in {"ready", "tested"}
    /\ runs < MaxRuns
    /\ runs' = runs + 1
    /\ scenarios' = generate_all_scenarios
    /\ test_results' = <<>>
    /\ step' = 1
    /\ pc' = IF Len(generate_all_scenarios) = 0 THEN "tested" ELSE "running"
    /\ UNCHANGED <<api, uuid_count, resp_data, users, files, exchange, analysis,
                   setup_log, export_summary, faults_used, fixture_api, api_reply, policy_vars>>

\* One pass of the loop of run_all_tests: test_scenario(scenarios[step]) and
\* the append of its result; an exception leaves the loop and the run.
test_scenario ==
    /\ pc = "running"
    /\ \E fault \in Faults :
        /\ MayFail(fault)
        /\ LET scenario == scenarios[step]
               user_id == users[scenario.audience]
               file_id == files[scenario.visibility]
               x == execute_api_action(api, uuid_count + 1, users, file_id, user_id,
                                       scenario.action, fault)
           IN  /\ api' = x.api
               /\ faults_used' = IF fault = "none" THEN faults_used ELSE faults_used + 1
               /\ exchange' = [action |-> scenario.action, user_id |-> user_id,
                               fault |-> fault, raised |-> x.raised, sent |-> x.sent,
                               request |-> x.request, http |-> x.http,
                               arrivals |-> x.arrivals,
                               returned |-> IF x.raised THEN "NONE" ELSE x.returned]
               /\ IF x.raised
                    THEN /\ pc' = "aborted"
                         /\ UNCHANGED <<step, test_results>>
                    ELSE /\ test_results' = Append(test_results,
                                                   TestResult(scenario, x.returned))
                         /\ step' = step + 1
                         /\ pc' = IF step = Len(scenarios) THEN "tested" ELSE "running"
    /\ UNCHANGED <<uuid_count, resp_data, users, files, scenarios, analysis,
                   setup_log, export_summary, runs, fixture_api, api_reply, policy_vars>>

\* print_summary: its call of analyze_results.  __main__ calls it once
\* run_all_tests has returned; a caller that catches the exception of an
\* aborted setup or run may call it on the results recorded until then.
print_summary ==
    /\ pc \in {"tested", "aborted"}
    /\ analysis' = analyze_results(test_results)
    /\ pc' = IF pc = "tested" THEN "analyzed" ELSE pc
    /\ UNCHANGED <<api, uuid_count, step, resp_data, users, files, scenarios,
                   test_results, exchange, setup_log, export_summary, runs,
                   faults_used, fixture_api, api_reply, policy_vars>>

\* export_results, after print_summary: its call of analyze_results for the
\* 'summary' of the exported file.
export_results ==
    /\ pc = "analyzed"
    /\ export_summary' = analyze_results(test_results)
    /\ pc' = "exported"
    /\ UNCHANGED <<api, uuid_count, step, resp_data, users, files, scenarios,
                   test_results, exchange, analysis, setup_log, runs, faults_used,
                   fixture_api, api_reply, policy_vars>>

OracleNext ==
    \/ setup_test_fixtures
    \/ run_all_tests
    \/ test_scenario
    \/ print_summary
    \/ export_results

\* A server that has served requests before the framework starts: it holds a
\* user, a private file of theirs and a permission on it.  The uuids drawn
\* before the framework started are numbered downward from -1.
ServedBefore ==
    LET with_user == api_create_user(NewFileShareAPI, -1, "old@acme.com", "org-acme", "Old").api
        with_file == api_create_file(with_user, -2, -1, "old.txt", "private", "Old content").api
    IN  api_share_file(with_file, -2, -1, -1, "read").api

\* The states the server can be in when the framework starts, each with the
\* number of uuids drawn since then.
ServerStates ==
    {[api |-> NewFileShareAPI, uuid_count |-> 0], [api |-> ServedBefore, uuid_count |-> 0]}

\* The framework constructed, nothing called yet; the server is up, freshly
\* started or used before.
FrameworkInit ==
    /\ PolicyIdle
    /\ \E server \in ServerStates : api = server.api /\ uuid_count = server.uuid_count
    /\ FrameworkConstructed

SpecOracle == FrameworkInit /\ [][OracleNext]_vars

(***************************************************************************)
(* The bundled subject as a state machine: a caller holding the            *)
(* FileShareAPI calls its operations in any order, with any arguments.     *)
(***************************************************************************)
\* How many uuids the subject draws.
MaxUuids == 3

\* The ids a caller passes. An id not drawn yet, the id of a deleted file, a
\* user's id given as a file's and a file's id given as a user's are the
\* ids the subject does not know.
Ids == 1..MaxUuids

\* The organisations and visibilities a caller passes, one of them invalid.
CallerOrganizations == {"org-acme"}
CallerVisibilities == {"private", "public", OutOfDomain}

\* The framework's variables, which a direct caller leaves alone.
framework_vars ==
    <<pc, step, resp_data, users, files, scenarios, test_results, exchange, analysis,
      setup_log, export_summary, runs, fixture_api, faults_used>>

\* The caller got r from operation op.
Replied(op, r) ==
    /\ api' = r.api
    /\ api_reply' = [op |-> op, status_code |-> r.resp.status_code]
    /\ uuid_count' = IF Drew(r.api, uuid_count + 1) THEN uuid_count + 1 ELSE uuid_count
    /\ UNCHANGED <<framework_vars, policy_vars>>

FileShareAPI_create_user ==
    /\ uuid_count < MaxUuids
    /\ \E organization_id \in CallerOrganizations :
          Replied("create_user",
                  api_create_user(api, uuid_count + 1, "user@acme.com", organization_id, "User"))

FileShareAPI_create_file ==
    /\ uuid_count < MaxUuids
    /\ \E owner_id \in Ids, visibility \in CallerVisibilities :
          Replied("create_file",
                  api_create_file(api, uuid_count + 1, owner_id, "file.txt", visibility,
                                  "Updated content"))

FileShareAPI_get_file ==
    \E file_id \in Ids, user_id \in Ids :
        Replied("get_file", api_get_file(api, file_id, user_id))

FileShareAPI_update_file ==
    \E file_id \in Ids, user_id \in Ids :
        Replied("update_file", api_update_file(api, file_id, user_id, "Updated content"))

FileShareAPI_delete_file ==
    \E file_id \in Ids, user_id \in Ids :
        Replied("delete_file", api_delete_file(api, file_id, user_id))

FileShareAPI_share_file ==
    \E file_id \in Ids, user_id \in Ids, target_user_id \in Ids :
        \E permission_type \in {"read", "edit"} :
            Replied("share_file",
                    api_share_file(api, file_id, user_id, target_user_id, permission_type))

\* reset returns nothing.
FileShareAPI_reset ==
    /\ api' = api_reset(api)
    /\ api_reply' = [op |-> "reset", status_code |-> 0]
    /\ UNCHANGED <<uuid_count, framework_vars, policy_vars>>

SubjectNext ==
    \/ FileShareAPI_create_user
    \/ FileShareAPI_create_file
    \/ FileShareAPI_get_file
    \/ FileShareAPI_update_file
    \/ FileShareAPI_delete_file
    \/ FileShareAPI_share_file
    \/ FileShareAPI_reset

\* FileShareAPI() constructed; the framework is not run.
SubjectInit == PolicyIdle /\ OracleInit

SpecSubject == SubjectInit /\ [][SubjectNext]_vars

(***************************************************************************)
(* Claims about the policy model.                                          *)
(***************************************************************************)
\* The enumerations and the rule chain as the specification states them.
Role == {"owner", "collaborator", "org_member", "external"}

ResourceClass == {"private", "shared", "org_public", "public"}

Action == {"read", "edit", "delete", "share"}

FiveRuleChain(is_owner, has_collaboration_permission, same_org, resourceClass, action) ==
    CASE is_owner -> "ALLOW"
      [] ~is_owner /\ resourceClass = "public" ->
            IF action = "read" THEN "ALLOW" ELSE "DENY"
      [] ~is_owner /\ resourceClass = "org_public" ->
            IF same_org /\ action = "read" THEN "ALLOW" ELSE "DENY"
      [] ~is_owner /\ resourceClass \notin {"public", "org_public"}
                   /\ has_collaboration_permission ->
            IF action \in {"read", "edit"} THEN "ALLOW" ELSE "DENY"
      [] OTHER -> "DENY"

Evaluated == decision # "NONE"

\* The caller is not the owner: neither flagged is_owner nor labelled owner.
NotOwnerCall == ~call.is_owner /\ call.audience # "owner"

\* The scenario lists returned so far.
ReturnedLists == {returned[n].scenarios : n \in 1..Len(returned)}

\* C1: for every combination of the three flags, the resource class and the
\* action, with a non-owner audience label whenever is_owner is false, evaluate
\* returns what the five-rule first-match chain returns.
C1_EvaluateIsFiveRuleChain ==
    (Evaluated /\ (call.is_owner \/ call.audience # "owner")) =>
        decision = FiveRuleChain(call.is_owner, call.has_collaboration_permission,
                                 call.same_org, call.visibility, call.action)

\* C1 witness: a collaborator in the owner's organisation was denied edit on
\* an org_public resource, where rules 3 and 4 overlap.
C1_Witness ==
    /\ decision = "DENY" /\ NotOwnerCall
    /\ call.has_collaboration_permission /\ call.same_org
    /\ call.visibility = "org_public" /\ call.action = "edit"

\* C2: every returned list has exactly 64 scenarios and each (audience,
\* visibility, action) triple of the 4x4x4 cross-product occurs exactly once.
C2_Completeness ==
    \A s \in ReturnedLists :
        /\ Len(s) = 64
        /\ \A r \in Role, c \in ResourceClass, a \in Action :
              Cardinality({i \in 1..Len(s) : /\ s[i].audience = r
                                             /\ s[i].visibility = c
                                             /\ s[i].action = a}) = 1

\* C2 witness: a list was returned and its last entry is (external, public, share).
C2_Witness ==
    /\ Len(returned) >= 1
    /\ LET s == returned[1].scenarios IN
          /\ Len(s) > 0
          /\ s[Len(s)].audience = "external"
          /\ s[Len(s)].visibility = "public"
          /\ s[Len(s)].action = "share"

\* C3: evaluate with is_owner true returns ALLOW whatever the other arguments
\* are, and each returned list holds 16 owner scenarios, all expecting ALLOW.
C3_OwnerSupremacy ==
    /\ (Evaluated /\ call.is_owner) => decision = "ALLOW"
    /\ \A s \in ReturnedLists :
          /\ Cardinality({i \in 1..Len(s) : s[i].is_owner}) = 16
          /\ \A i \in 1..Len(s) : s[i].is_owner => s[i].expected_result = "ALLOW"

\* C3 witness: an is_owner call to share a public resource under a non-owner
\* label, outside the organisation, was allowed, and a list was generated.
C3_Witness ==
    /\ decision = "ALLOW" /\ call.is_owner /\ call.audience = "external"
    /\ ~call.same_org /\ ~call.has_collaboration_permission
    /\ call.visibility = "public" /\ call.action = "share"
    /\ Len(returned) >= 1

\* C4: the decision depends on the three flags, the resource class and the
\* action only: the same call under any other audience label returns the same
\* decision.
C4_DecisionIgnoresAudienceLabel ==
    Evaluated =>
        \A label \in AudienceArgs :
            evaluate(label, call.visibility, call.action, call.is_owner,
                     call.has_collaboration_permission, call.same_org) = decision

\* C5: for a caller that is not the owner, a public resource is readable and
\* nothing else, whatever has_collaboration_permission and same_org are.
C5_PublicReadOnly ==
    (Evaluated /\ NotOwnerCall /\ call.visibility = "public") =>
        decision = (IF call.action = "read" THEN "ALLOW" ELSE "DENY")

\* C5 witness: a collaborator was denied edit on a public resource.
C5_Witness ==
    /\ decision = "DENY" /\ NotOwnerCall /\ call.has_collaboration_permission
    /\ call.visibility = "public" /\ call.action = "edit"

\* C6: for a caller that is not the owner, an org_public resource is readable
\* iff same_org, and edit, delete and share are denied, also when
\* has_collaboration_permission is true.
C6_OrgPublicGating ==
    (Evaluated /\ NotOwnerCall /\ call.visibility = "org_public") =>
        decision = (IF call.same_org /\ call.action = "read" THEN "ALLOW" ELSE "DENY")

\* C6 witness: a collaborator outside the organisation was denied read on an
\* org_public resource.
C6_Witness ==
    /\ decision = "DENY" /\ NotOwnerCall /\ call.has_collaboration_permission
    /\ ~call.same_org /\ call.visibility = "org_public" /\ call.action = "read"

\* C7: a caller that is not the owner and holds a collaboration permission is
\* denied delete and share on every resource class, and each returned list holds
\* 8 collaborator delete/share scenarios, all expecting DENY.
C7_CollaboratorCeiling ==
    /\ (Evaluated /\ NotOwnerCall /\ call.has_collaboration_permission
                  /\ call.action \in {"delete", "share"}) => decision = "DENY"
    /\ \A s \in ReturnedLists :
          LET ceiling == {i \in 1..Len(s) : /\ s[i].audience = "collaborator"
                                            /\ s[i].action \in {"delete", "share"}} IN
          /\ Cardinality(ceiling) = 8
          /\ \A i \in ceiling : s[i].expected_result = "DENY"

\* C7 witness: a collaborator was denied share on a private resource, and a
\* list was generated.
C7_Witness ==
    /\ decision = "DENY" /\ NotOwnerCall /\ call.has_collaboration_permission
    /\ call.visibility = "private" /\ call.action = "share"
    /\ Len(returned) >= 1

\* C8: the derived booleans of every generated scenario are fixed by its role
\* alone, and its expected_result is evaluate applied to its own fields.
C8_ScenarioSelfConsistent ==
    \A s \in ReturnedLists : \A i \in 1..Len(s) :
        /\ s[i].is_owner = (s[i].audience = "owner")
        /\ s[i].has_collaboration = (s[i].audience = "collaborator")
        /\ s[i].same_org = (s[i].audience \in {"owner", "org_member"})
        /\ s[i].expected_result =
              evaluate(s[i].audience, s[i].visibility, s[i].action, s[i].is_owner,
                       s[i].has_collaboration, s[i].same_org)

\* C8 witness: a generated collaborator scenario on a shared resource, flagged
\* as collaborator outside the organisation, expects ALLOW for edit.
C8_Witness ==
    \E s \in ReturnedLists : \E i \in 1..Len(s) :
        /\ s[i].audience = "collaborator" /\ s[i].visibility = "shared"
        /\ s[i].action = "edit" /\ s[i].has_collaboration /\ ~s[i].same_org
        /\ s[i].expected_result = "ALLOW"

\* C9: any two calls of generate_all_scenarios, on the same or on different
\* policies and with evaluate calls around them, return identical sequences.
C9_GenerationDeterministic ==
    \A m, n \in 1..Len(returned) : returned[m].scenarios = returned[n].scenarios

\* C9 witness: two lists were returned by two different policies and evaluate
\* was called as well.
C9_Witness ==
    /\ Len(returned) >= 2
    /\ returned[1].self # returned[2].self
    /\ Len(returned[2].scenarios) > 0
    /\ Evaluated


(***************************************************************************)
(* Claims about the differential oracle.                                   *)
(***************************************************************************)
\* The latest execute_api_action got an answer from the subject and returned.
Answered == exchange.sent /\ ~exchange.raised

\* The answer is a success or a 'forbidden' answer: for read, edit and share a
\* status 200, 201 or 403; for delete, a 200 from /authorize whose JSON body
\* says whether the action is allowed.
ExpectedAnswer ==
    IF exchange.action = "delete"
      THEN /\ exchange.http.status_code = 200
           /\ exchange.http.is_json
           /\ "allowed" \in DOMAIN exchange.http.body
      ELSE exchange.http.status_code \in {200, 201, 403}

\* C10: whenever the subject's answer to a read, edit, delete or share
\* invocation is neither a success nor a 'forbidden' answer, execute_api_action
\* returns ERROR (and so never DENY).
C10_UnexpectedAnswerIsError ==
    (Answered /\ ~ExpectedAnswer) => exchange.returned = "ERROR"

\* setup_test_fixtures has returned: the run is at or past run_all_tests.
SetupReturned == pc \in {"ready", "running", "tested", "analyzed", "exported"}

\* The scenario the loop of run_all_tests executes next is one of action a.
NextScenarioIs(a) == pc = "running" /\ scenarios[step].action = a

\* C11: a delete scenario only asks the subject's authorization check and
\* leaves the subject's users, files, contents and permissions as they were,
\* and in every state after setup the four fixture files exist in the subject.
C11_DeleteIsNonDestructive ==
    /\ [](SetupReturned =>
            /\ DOMAIN files = ResourceClass
            /\ \A c \in ResourceClass : files[c] \in DOMAIN api.files)
    /\ [][NextScenarioIs("delete") =>
            /\ api' = api
            /\ exchange'.request.route = "authorize"]_vars

\* C11 witness: the owner's delete of the private file was executed and
\* answered ALLOW, and the file is still there.
C11_Witness ==
    /\ exchange.action = "delete" /\ exchange.returned = "ALLOW"
    /\ exchange.request.args.file_id = files["private"]
    /\ files["private"] \in DOMAIN api.files

Results == Range(test_results)

\* C13: every result has passed true iff its observed decision equals its
\* expected one; a result observed as ERROR has passed false, is counted in
\* the analysis' failed and is in neither over_permissive nor over_restrictive.
C13_PassedIffEqual ==
    /\ \A r \in Results :
          /\ r.passed <=> (r.actual = r.expected)
          /\ r.actual = "ERROR" => ~r.passed
    /\ pc = "analyzed" =>
          /\ analysis.failed =
                Cardinality({i \in 1..Len(test_results) :
                                test_results[i].actual # test_results[i].expected})
          /\ analysis.passed + analysis.failed = analysis.total
          /\ \A r \in Results :
                r.actual = "ERROR" =>
                    /\ r \notin Range(analysis.over_permissive)
                    /\ r \notin Range(analysis.over_restrictive)

\* C13 witness: a run with one ERROR result, passed and failed results beside
\* it, was analysed.
C13_Witness ==
    /\ pc = "analyzed"
    /\ \E r \in Results : r.actual = "ERROR" /\ ~r.passed
    /\ \E r \in Results : r.actual = "ALLOW" /\ r.passed
    /\ analysis.failed > 1 /\ analysis.passed > 1

\* C14: when an invocation of the subject during run_all_tests times out or
\* finds the subject unreachable, the scenario is recorded with the observed
\* decision ERROR and passed false, and the run goes on.
C14_FaultIsContained ==
    (exchange.sent /\ exchange.fault \in {"timeout", "unreachable"}) =>
        /\ pc \in {"running", "tested", "analyzed"}
        /\ Len(test_results) >= 1
        /\ test_results[Len(test_results)].actual = "ERROR"
        /\ ~test_results[Len(test_results)].passed

\* C15: no invocation is sent again: of the request a scenario makes for its
\* action at most one arrives at the subject, so an edit or a share is applied
\* at most once, also when the answer is a server error or does not come.
C15_NeverRetried ==
    exchange.sent => exchange.arrivals <= 1

\* The subject rejected a request of setup_test_fixtures: it answered it with
\* a status that is not a success.
SetupRejected == \E n \in 1..Len(setup_log) : setup_log[n] \notin {200, 201}

\* C16: once the subject has rejected the reset, a creation or a grant of
\* setup_test_fixtures, the setup does not return normally and no scenario is
\* executed against the subject.
C16_SetupFailureIsFatal ==
    SetupRejected =>
        /\ pc \in {"setup", "aborted"}
        /\ ~exchange.sent
        /\ test_results = <<>>

\* C17: when setup_test_fixtures returns and the subject has accepted each of
\* its requests, the subject holds exactly the four fixture users, exactly the
\* four fixture files, each of its visibility and owned by the owner, and
\* exactly the collaborator's two edit permissions, on private and on shared.
C17_FixtureState ==
    (pc = "ready" /\ ~SetupRejected) =>
        /\ DOMAIN users = Role /\ DOMAIN files = ResourceClass
        /\ \A r, q \in Role : users[r] = users[q] => r = q
        /\ \A c, d \in ResourceClass : files[c] = files[d] => c = d
        /\ DOMAIN api.users = {users[r] : r \in Role}
        /\ DOMAIN api.files = {files[c] : c \in ResourceClass}
        /\ \A c \in ResourceClass :
              /\ api.files[files[c]].visibility = c
              /\ api.files[files[c]].owner_id = users["owner"]
        /\ DOMAIN api.permissions = {<<files["private"], users["collaborator"]>>,
                                     <<files["shared"], users["collaborator"]>>}
        /\ \A k \in DOMAIN api.permissions : api.permissions[k] = "edit"

\* C17 witness: setup returned with each request accepted; the user, the file
\* and the permission a server used before held are not there, the eight
\* fixtures and the two permissions are.
C17_Witness ==
    /\ pc = "ready" /\ ~SetupRejected
    /\ uuid_count = 8
    /\ DOMAIN ServedBefore.users \cap DOMAIN api.users = {}
    /\ DOMAIN ServedBefore.files \cap DOMAIN api.files = {}
    /\ Cardinality(DOMAIN api.permissions) = 2

\* C18: every share scenario asks the subject to grant read permission to the
\* user bound to the external role, and that target is not the user the
\* scenario acts as, whichever of the four roles it is.
C18_ShareTargetIsAuxiliary ==
    (exchange.sent /\ exchange.action = "share") =>
        /\ exchange.request.route = "share_file"
        /\ exchange.request.args.permission_type = "read"
        /\ exchange.request.args.target_user_id = users["external"]
        /\ exchange.request.args.target_user_id # exchange.request.args.user_id

\* C19: the analysis classifies every failed result in exactly one class,
\* over_permissive, over_restrictive or a class of its own for the results
\* observed as ERROR, so failed is the sum of the sizes of the three.
C19_FailuresClassified ==
    pc = "analyzed" =>
        analysis.failed = Len(analysis.over_permissive)
                          + Len(analysis.over_restrictive)
                          + Len(DictGet(analysis, "infrastructure", <<>>))

\* Where a result stands in the run.
PositionOf(r) == CHOOSE i \in 1..Len(test_results) : test_results[i] = r

\* The list keeps the order of the run, without repeating a result.
InRunOrder(list) ==
    \A i, j \in 1..Len(list) : i < j => PositionOf(list[i]) < PositionOf(list[j])

\* C20: over_permissive holds exactly the results expected DENY and observed
\* ALLOW, over_restrictive exactly those expected ALLOW and observed DENY; the
\* two are disjoint, hold failed results only and keep the order of the run.
C20_FailureLists ==
    pc = "analyzed" =>
        LET permissive == analysis.over_permissive
            restrictive == analysis.over_restrictive
        IN  /\ Range(permissive) =
                  {r \in Results : r.expected = "DENY" /\ r.actual = "ALLOW"}
            /\ Range(restrictive) =
                  {r \in Results : r.expected = "ALLOW" /\ r.actual = "DENY"}
            /\ Range(permissive) \cap Range(restrictive) = {}
            /\ \A r \in Range(permissive) \cup Range(restrictive) : ~r.passed
            /\ InRunOrder(permissive) /\ InRunOrder(restrictive)

\* C20 witness: an analysed run with several over-permissive results, an
\* over-restrictive one and passed ones.
C20_Witness ==
    /\ pc = "analyzed"
    /\ Len(analysis.over_permissive) >= 2
    /\ Len(analysis.over_restrictive) >= 1
    /\ analysis.passed >= 1

\* The sum of the sizes of the groups of a grouping.
RECURSIVE GroupSizes(_, _)
GroupSizes(groups, keys) ==
    IF keys = {} THEN 0
    ELSE LET k == CHOOSE x \in keys : TRUE IN
         Len(groups[k]) + GroupSizes(groups, keys \ {k})

\* The grouping is a partition of the failed results by the field: a key is
\* there iff a failed result has it, and its group holds exactly the failed
\* results with that key, each once.
PartitionsFailures(groups, field) ==
    LET failed == {r \in Results : ~r.passed} IN
    /\ DOMAIN groups = {r.scenario[field] : r \in failed}
    /\ \A k \in DOMAIN groups :
          /\ groups[k] # <<>>
          /\ Range(groups[k]) = {r \in failed : r.scenario[field] = k}
          /\ \A i, j \in 1..Len(groups[k]) :
                groups[k][i].scenario_id = groups[k][j].scenario_id => i = j
    /\ GroupSizes(groups, DOMAIN groups) = analysis.failed

\* C21: failures_by_audience and failures_by_action are each a partition of
\* the failed results, by the result's own role and by its own action; no
\* passed result is in a group, no key has an empty group, and the group sizes
\* of each grouping sum to failed.
C21_FailureGroupings ==
    pc = "analyzed" =>
        /\ PartitionsFailures(analysis.failures_by_audience, "audience")
        /\ PartitionsFailures(analysis.failures_by_action, "action")

\* C21 witness: an analysed run whose failures fall under three roles and not
\* under owner, and under several actions.
C21_Witness ==
    /\ pc = "analyzed"
    /\ DOMAIN analysis.failures_by_audience = Role \ {"owner"}
    /\ Cardinality(DOMAIN analysis.failures_by_action) >= 3
    /\ Len(analysis.failures_by_audience["external"]) >= 2

\* analysis holds the summary of the results as they are now.
AnalysisCurrent == pc \in {"analyzed", "exported"} \/ (pc = "aborted" /\ analysis # EmptyDict)

\* The counts of a summary are those of the recorded results; pass_rate, a
\* fraction <<numerator, denominator>>, is passed * 100 / total, or 0 when
\* there are no results.
CountsResults(summary) ==
    /\ summary.total = Len(test_results)
    /\ summary.passed = Cardinality({i \in 1..Len(test_results) : test_results[i].passed})
    /\ summary.passed + summary.failed = summary.total
    /\ IF summary.total = 0 THEN summary.pass_rate[1] = 0
       ELSE summary.pass_rate[1] * summary.total
                = summary.passed * 100 * summary.pass_rate[2]
    /\ summary.pass_rate[2] > 0

\* C22: in a summary total is the number of recorded results, passed counts
\* the results with passed true, passed + failed = total and pass_rate is
\* passed*100/total, or 0 without results; a call of analyze_results leaves
\* the recorded results as they are and a second call returns an equal summary.
C22_SummaryCounts ==
    /\ [](AnalysisCurrent => CountsResults(analysis))
    /\ [](pc = "exported" => CountsResults(export_summary) /\ export_summary = analysis)
    /\ [][analysis' # analysis \/ export_summary' # export_summary
             => test_results' = test_results]_vars

\* C22 witness: the summary was computed twice over a run with passed, failed
\* and ERROR results.
C22_Witness ==
    /\ pc = "exported" /\ export_summary = analysis
    /\ analysis.total = 64 /\ analysis.passed > 0 /\ analysis.failed > 14
    /\ \E r \in Results : r.actual = "ERROR"

\* C23: evaluate given a resource class or an action outside the declared
\* enumerations raises an error; it returns no decision.
C23_MalformedFailsLoudly ==
    (Evaluated /\ (call.visibility \notin ResourceClass \/ call.action \notin Action)) =>
        decision \notin {"ALLOW", "DENY"}

\* The first n results are those of the first n scenarios, in generation
\* order: the i-th has scenario_id i and that scenario's expected decision.
FeedOf(n) ==
    /\ Len(test_results) = n
    /\ \A i \in 1..n :
          /\ test_results[i].scenario_id = i
          /\ test_results[i].scenario = scenarios[i]
          /\ test_results[i].expected = scenarios[i].expected_result

\* C24: when run_all_tests has returned, test_results holds exactly one result
\* per generated scenario, in generation order; while it runs, the scenarios
\* are executed one after another, the results so far being those of the
\* scenarios before the next one; a second call replaces the list.
C24_ResultFeed ==
    /\ pc \in {"tested", "analyzed", "exported"} =>
          Len(scenarios) = 64 /\ FeedOf(Len(scenarios))
    /\ pc = "running" => FeedOf(step - 1)

\* C24 witness: the second call of run_all_tests has returned.
C24_Witness ==
    /\ pc = "tested" /\ runs = 2
    /\ Len(test_results) = 64
    /\ test_results[64].scenario.audience = "external"

\* The orders of the enumerations as the claim gives them.
RoleOrder == <<"owner", "collaborator", "org_member", "external">>

ResourceClassOrder == <<"private", "shared", "org_public", "public">>

ActionOrder == <<"read", "edit", "delete", "share">>

\* C25: a returned list is in lexicographic order of (role, visibility,
\* action) under these orders and its ids are 1..64: the scenario of role index
\* r, visibility index v and action index a (from 0) has id 16r + 4v + a + 1
\* and stands at that place.
C25_GenerationOrder ==
    \A s \in ReturnedLists :
        /\ Len(s) = 64
        /\ \A r, v, a \in 0..3 :
              LET id == 16 * r + 4 * v + a + 1 IN
              /\ s[id].scenario_id = id
              /\ s[id].audience = RoleOrder[r + 1]
              /\ s[id].visibility = ResourceClassOrder[v + 1]
              /\ s[id].action = ActionOrder[a + 1]

\* C25 witness: a list was returned whose entry 37 is (org_member, shared,
\* read) and whose last entry has id 64.
C25_Witness ==
    \E s \in ReturnedLists :
        /\ Len(s) = 64 /\ s[64].scenario_id = 64
        /\ s[37].audience = "org_member" /\ s[37].visibility = "shared"
        /\ s[37].action = "read"

\* The decision observed when the scenario alone is executed on the subject
\* as setup_test_fixtures left it.
AloneDecision(scenario) ==
    execute_api_action(fixture_api, uuid_count + 1, users, files[scenario.visibility],
                       users[scenario.audience], scenario.action, "none").returned

\* C26: in a run without infrastructure faults on fixtures the subject
\* accepted, the observed decision of every scenario is the one it gets when
\* executed alone on the freshly bound fixtures: what earlier scenarios did to
\* the subject changes no later outcome.
C26_OrderIndependent ==
    (SetupReturned /\ faults_used = 0) =>
        \A i \in 1..Len(test_results) :
            test_results[i].actual = AloneDecision(test_results[i].scenario)

\* The user bound to the role is in the organisation of the file owner.
InOwnersOrganisation(role) ==
    api.users[users[role]].organization_id = api.users[users["owner"]].organization_id

\* The user bound to the role holds a permission on the file bound to the class.
HoldsPermission(role, class) == <<files[class], users[role]>> \in DOMAIN api.permissions

\* C27: on the fixtures as bound, the user of a role is in the owner's
\* organisation iff same_org is true for the role, and holds a permission on
\* the private and on the shared file iff has_collaboration_permission is true
\* for the role.
C27_FixturesRealiseFlags ==
    (pc = "ready" /\ ~SetupRejected) =>
        \A role \in Role :
            /\ InOwnersOrganisation(role) <=> DerivedFlags(role).same_org
            /\ \A class \in {"private", "shared"} :
                  HoldsPermission(role, class) <=> DerivedFlags(role).has_collaboration

\* A file but for its content.
Header(file) == [owner_id |-> file.owner_id, name |-> file.name, visibility |-> file.visibility]

\* The permission entries whose grantee is not the user.
GrantsToOthers(permissions, user) ==
    [k \in {e \in DOMAIN permissions : e[2] # user} |-> permissions[k]]

\* C28: a step of run_all_tests changes nothing in the subject but the content
\* of files, in an edit scenario, and permission entries granted to the
\* external user, in a share scenario: the users, the organisations, the set
\* of files, each file's owner and visibility, every permission of another
\* grantee (the collaborator's two among them) and the framework's users and
\* files maps stay as they are.
C28_RunFrame ==
    [][pc = "running" =>
        /\ api'.users = api.users
        /\ api'.organizations = api.organizations
        /\ DOMAIN api'.files = DOMAIN api.files
        /\ \A f \in DOMAIN api.files : Header(api'.files[f]) = Header(api.files[f])
        /\ api'.files # api.files => scenarios[step].action = "edit"
        /\ GrantsToOthers(api'.permissions, users["external"])
              = GrantsToOthers(api.permissions, users["external"])
        /\ DOMAIN api.permissions \subseteq DOMAIN api'.permissions
        /\ api'.permissions # api.permissions => scenarios[step].action = "share"
        /\ users' = users /\ files' = files]_vars

\* C28 witness: in the run, an allowed share has granted the external user a
\* permission on the private file, whose content an edit has replaced, and the
\* collaborator's permission on it is still of level edit.
C28_Witness ==
    /\ pc = "running"
    /\ exchange.action = "share" /\ exchange.returned = "ALLOW"
    /\ <<files["private"], users["external"]>> \in DOMAIN api.permissions
    /\ api.files[files["private"]].content = "Updated content"
    /\ api.permissions[<<files["private"], users["collaborator"]>>] = "edit"

(***************************************************************************)
(* Claims about the bundled subject.                                       *)
(***************************************************************************)
\* C29: the subject authorizes a user who is not the owner to edit a private
\* or shared file only if the user holds a permission of level edit on it; a
\* permission of level read does not authorize edit.
C29_EditNeedsEditPermission ==
    \A f \in DOMAIN api.files, u \in DOMAIN api.users :
        (/\ api.files[f].owner_id # u
         /\ api.files[f].visibility \in {"private", "shared"}
         /\ check_authorization(api, f, u, "edit"))
            => /\ <<f, u>> \in DOMAIN api.permissions
               /\ api.permissions[<<f, u>>] = "edit"

\* Every permission entry is on an existing file for an existing user, and
\* every file is owned by an existing user.
ReferencesExist ==
    /\ \A k \in DOMAIN api.permissions :
          k[1] \in DOMAIN api.files /\ k[2] \in DOMAIN api.users
    /\ \A f \in DOMAIN api.files : api.files[f].owner_id \in DOMAIN api.users

\* C30: after any sequence of the subject's operations every permission
\* entry refers to an existing file and an existing user and every file's
\* owner is an existing user; an operation answered 403 or 404 leaves users,
\* files and permissions as they were.
C30_SubjectIntegrity ==
    /\ []ReferencesExist
    /\ [][api_reply'.status_code \in {403, 404} =>
            /\ api'.users = api.users
            /\ api'.files = api.files
            /\ api'.permissions = api.permissions]_vars

\* C30 witness: a file was deleted while another file and a permission on it
\* remain.
C30_Witness ==
    /\ api_reply = [op |-> "delete_file", status_code |-> 200]
    /\ DOMAIN api.files # {}
    /\ DOMAIN api.permissions # {}
    /\ ReferencesExist

====
